---- MODULE Spec2Model ----
(***************************************************************************)
(* Model of the Senzor web agent (src/src/index.ts): one page load of one  *)
(* tab.  The agent instance, the two storage scopes, the document and the  *)
(* requests handed to the network are the state; the host's call of init   *)
(* and the browser's signals (pushState, popstate, visibilitychange,       *)
(* beforeunload) are the actions.  Each action runs its whole handler at   *)
(* one reading of the clock.                                               *)
(*                                                                         *)
(* JavaScript strings that the code takes apart (the referrer, the stored  *)
(* timestamp) are sequences of tokens; null is the one-token sequence Null.*)
(***************************************************************************)
EXTENDS Integers, Sequences, FiniteSets

VARIABLES
  now,          \* Date.now() at the last handler, in milliseconds
  agent,        \* the SenzorWebAgent instance: initialized, config, endpoint, startTime, listeners
  ls,           \* localStorage: senzor_vid, senzor_last_activity
  ss,           \* sessionStorage: senzor_sid, senzor_ref
  uuids,        \* number of identifiers generateUUID has produced
  location,     \* window.location.pathname
  docReferrer,  \* document.referrer
  visibility,   \* document.visibilityState
  alive,        \* the page has not been torn down
  storageMode,  \* "ok", "quota" (setItem throws) or "denied" (every access throws)
  out,          \* the requests the last handler handed to the network, in order
  writes,       \* the storage keys the last handler wrote, in order
  network,      \* what navigator.sendBeacon and fetch do on this page load
  beacons,      \* the payloads the last handler passed to navigator.sendBeacon
  fetches,      \* the payloads the last handler passed to fetch
  pending,      \* the payloads of the fetch calls that have not settled
  threw,        \* the last handler let an exception escape into the page
  ev,           \* the last action: its name and its input
  pre,          \* the state the last handler started from
  lastSent,     \* sessionId of the last payload sent before the last handler ran
  lastPing,     \* duration of the last ping sent before the last handler ran
  lastPageview, \* the time the last pageview was sent
  lastShown,    \* the time the tab last became visible again
  visibleMs,    \* milliseconds the tab was visible since the last pageview
  pingedSec,    \* sum of the durations of the pings sent since the last pageview
  pageviewSids, \* the sessionIds the pageviews of this page load have carried
  tabs,         \* two tabs of one origin running init step by step (SpecTabs only)
  steps         \* number of actions taken

vars == <<now, agent, ls, ss, uuids, location, docReferrer, visibility, alive,
          storageMode, out, writes, network, beacons, fetches, pending, threw, ev,
          pre, lastSent, lastPing, lastPageview, lastShown, visibleMs, pingedSec,
          pageviewSids, tabs, steps>>

----------------------------------------------------------------------------
(* Bounds *)

\* The clock at page load.  Date.now() is far beyond the session timeout on
\* any real clock; T0 keeps that property within TLC's integers.
T0 == 2000000

\* Number of actions (host calls and browser signals) of one page load.
MaxEvents == 4

sessionTimeout == 30 * 60 * 1000

\* Milliseconds between the page's load, or an earlier call, and a call of init.
InitDelay == 500

\* Milliseconds that may pass before a browser signal: under a second, 10 s, 45 s,
\* exactly the session timeout, and one millisecond more.
Elapsed == {500, 10000, 45000, sessionTimeout, sessionTimeout + 1}

----------------------------------------------------------------------------
(* JavaScript values *)

Null == <<"null">>
EmptyString == <<>>

\* !x for a string or null
Falsy(x) == x = Null \/ x = EmptyString

\* a || b
OrElse(a, b) == IF Falsy(a) THEN b ELSE a

DigitChars == <<"0", "1", "2", "3", "4", "5", "6", "7", "8", "9">>

\* the value of each decimal digit
DigitValue == [c \in {DigitChars[d] : d \in 1..10} |->
                 (CHOOSE d \in 1..10 : DigitChars[d] = c) - 1]

IsDigit(c) == c \in DOMAIN DigitValue

\* Number.prototype.toString of a non-negative integer
RECURSIVE toString(_)
toString(n) ==
  IF n < 10 THEN <<DigitChars[n + 1]>>
  ELSE Append(toString(n \div 10), DigitChars[(n % 10) + 1])

NaN == -1

\* the value of the longest prefix of decimal digits of s from position i
\* on, acc being the value of the digits before i
RECURSIVE DigitsFrom(_, _, _)
DigitsFrom(s, i, acc) ==
  IF i > Len(s) \/ ~IsDigit(s[i]) THEN acc
  ELSE DigitsFrom(s, i + 1, 10 * acc + DigitValue[s[i]])

\* parseInt(s, 10)
parseInt(s) ==
  IF s = <<>> \/ ~IsDigit(s[1]) THEN NaN ELSE DigitsFrom(s, 1, 0)

\* the comparison with >= in place of >
GapReaches(a, b, c) == b # NaN /\ a - b >= c

\* a - b > c in JavaScript numbers: false when b is NaN
GapExceeds(a, b, c) == b # NaN /\ a - b > c

\* Math.round(x / 1000) in place of Math.floor
RoundSeconds(x) == (x + 500) \div 1000

\* Math.floor(x / 1000) for x >= 0
FloorSeconds(x) == x \div 1000

----------------------------------------------------------------------------
(* The page *)

currentHost == "site.example"

Pages == {"/a", "/b"}

href(path) == <<"https://", currentHost, path>>

title(path) == <<"Title of ", path>>

innerWidth == 1280

timeZone == "Europe/Paris"

NoReferrer == EmptyString
InternalReferrer == <<"https://", currentHost, "/prev">>
ExternalReferrer == <<"https://", "search.example", "/q=x">>
\* an external referrer over http, and one that new URL() rejects
HttpReferrer == <<"http://", "news.example", "/item">>
UnparseableReferrer == <<"search.example", "/q=x">>

Referrers == {NoReferrer, InternalReferrer, ExternalReferrer}

Schemes == {"http://", "https://"}

\* new URL(raw) succeeds
Parses(raw) == Len(raw) >= 2 /\ raw[1] \in Schemes

\* new URL(raw).hostname
hostname(raw) == raw[2]

DefaultEndpoint == <<"https://", "api.senzor.dev", "/api/ingest/web">>

\* the configurations the host may pass to init
Configs ==
  { [webId |-> <<"w1">>],
    [webId |-> <<"w2">>, endpoint |-> <<"https://", "collect.example", "/in">>],
    [webId |-> EmptyString],
    [endpoint |-> EmptyString] }

\* { ...b, ...a }
MergeReversed(a, b) ==
  [k \in DOMAIN a \cup DOMAIN b |-> IF k \in DOMAIN a THEN a[k] ELSE b[k]]

\* { ...a, ...b }
Merge(a, b) ==
  [k \in DOMAIN a \cup DOMAIN b |-> IF k \in DOMAIN b THEN b[k] ELSE a[k]]

UUID(n) == <<"uuid", n>>

----------------------------------------------------------------------------
(* The handlers.  Each takes and returns the world w:                      *)
(*   initialized, config, endpoint, startTime, listeners  (the instance)   *)
(*   vid, la, sid, ref        (the four storage keys)                      *)
(*   uuids, loc, out, writes, beacons, fetches, threw                      *)
(* Once w.threw is set an exception is on its way out of the handler and   *)
(* every later statement is skipped.                                       *)

Throw(w) == [w EXCEPT !.threw = TRUE]

\* localStorage.getItem / sessionStorage.getItem: the value is read from w
\* by the caller; the access itself throws when storage is denied
getItem(w) ==
  IF w.threw THEN w
  ELSE IF storageMode = "denied" THEN Throw(w) ELSE w

\* localStorage.setItem / sessionStorage.setItem on key k
setItem(w, k, v) ==
  IF w.threw THEN w
  ELSE IF storageMode # "ok" THEN Throw(w)
  ELSE IF k = "vid" THEN [w EXCEPT !.vid = v, !.writes = Append(@, k)]
  ELSE IF k = "la" THEN [w EXCEPT !.la = v, !.writes = Append(@, k)]
  ELSE IF k = "sid" THEN [w EXCEPT !.sid = v, !.writes = Append(@, k)]
  ELSE [w EXCEPT !.ref = v, !.writes = Append(@, k)]

\* generateUUID(): a fresh identifier; the value is UUID(w.uuids + 1)
generateUUID(w) == IF w.threw THEN w ELSE [w EXCEPT !.uuids = @ + 1]

normalizeUrl(url) ==
  IF Falsy(url) THEN EmptyString
  ELSE IF url[1] \in Schemes THEN Tail(url) ELSE url

\* determineReferrer without its "Direct" branch
determineReferrerNoDirect(w, isNewSession) ==
  LET rawReferrer == docReferrer
      w1 == getItem(w)
      storedReferrer == w1.ref
      isExternal ==
        IF Falsy(rawReferrer) THEN FALSE
        ELSE IF Parses(rawReferrer) THEN hostname(rawReferrer) # currentHost
        ELSE TRUE
      cleanRef == normalizeUrl(rawReferrer)
  IN IF w1.threw THEN w1
     ELSE IF isExternal
          THEN IF cleanRef # storedReferrer THEN setItem(w1, "ref", cleanRef) ELSE w1
     ELSE w1

\* determineReferrer writing the external referrer without comparing it
determineReferrerAlwaysWrites(w, isNewSession) ==
  LET rawReferrer == docReferrer
      w1 == getItem(w)
      storedReferrer == w1.ref
      isExternal ==
        IF Falsy(rawReferrer) THEN FALSE
        ELSE IF Parses(rawReferrer) THEN hostname(rawReferrer) # currentHost
        ELSE TRUE
      cleanRef == normalizeUrl(rawReferrer)
  IN IF w1.threw THEN w1
     ELSE IF isExternal
          THEN setItem(w1, "ref", cleanRef)
     ELSE IF isNewSession /\ Falsy(storedReferrer)
          THEN setItem(w1, "ref", <<"Direct">>)
     ELSE w1

\* determineReferrer writing "Direct" whenever the referrer is not external
determineReferrerResetsDirect(w, isNewSession) ==
  LET rawReferrer == docReferrer
      w1 == getItem(w)
      storedReferrer == w1.ref
      isExternal ==
        IF Falsy(rawReferrer) THEN FALSE
        ELSE IF Parses(rawReferrer) THEN hostname(rawReferrer) # currentHost
        ELSE TRUE
      cleanRef == normalizeUrl(rawReferrer)
  IN IF w1.threw THEN w1
     ELSE IF isExternal
          THEN IF cleanRef # storedReferrer THEN setItem(w1, "ref", cleanRef) ELSE w1
     ELSE setItem(w1, "ref", <<"Direct">>)

determineReferrer(w, isNewSession) ==
  LET rawReferrer == docReferrer
      w1 == getItem(w)
      storedReferrer == w1.ref
      isExternal ==
        IF Falsy(rawReferrer) THEN FALSE
        ELSE IF Parses(rawReferrer) THEN hostname(rawReferrer) # currentHost
        ELSE TRUE
      cleanRef == normalizeUrl(rawReferrer)
  IN IF w1.threw THEN w1
     ELSE IF isExternal
          THEN IF cleanRef # storedReferrer THEN setItem(w1, "ref", cleanRef) ELSE w1
     ELSE IF isNewSession /\ Falsy(storedReferrer)
          THEN setItem(w1, "ref", <<"Direct">>)
     ELSE w1

\* manageSession renewing the visitor id together with an expired session
manageSessionRenewsVisitor(w, t) ==
  LET w1 == getItem(w)
      lastActivity == parseInt(OrElse(w1.la, <<"0">>))
      isExpired == GapExceeds(t, lastActivity, sessionTimeout)
      w2 == getItem(w1)
      w3 == IF Falsy(w2.vid) \/ isExpired
            THEN setItem(generateUUID(w2), "vid", UUID(w2.uuids + 1))
            ELSE w2
      w4 == getItem(w3)
      sessionId == w4.sid
      w5 == IF Falsy(sessionId) \/ isExpired
            THEN determineReferrer(
                   setItem(generateUUID(w4), "sid", UUID(w4.uuids + 1)), TRUE)
            ELSE determineReferrer(w4, FALSE)
  IN setItem(w5, "la", toString(t))

\* manageSession without the write of senzor_last_activity
manageSessionKeepsActivity(w, t) ==
  LET w1 == getItem(w)
      lastActivity == parseInt(OrElse(w1.la, <<"0">>))
      w2 == getItem(w1)
      w3 == IF Falsy(w2.vid)
            THEN setItem(generateUUID(w2), "vid", UUID(w2.uuids + 1))
            ELSE w2
      w4 == getItem(w3)
      sessionId == w4.sid
      isExpired == GapExceeds(t, lastActivity, sessionTimeout)
      w5 == IF Falsy(sessionId) \/ isExpired
            THEN determineReferrer(
                   setItem(generateUUID(w4), "sid", UUID(w4.uuids + 1)), TRUE)
            ELSE determineReferrer(w4, FALSE)
  IN w5

manageSession(w, t) ==
  LET w1 == getItem(w)
      lastActivity == parseInt(OrElse(w1.la, <<"0">>))
      w2 == getItem(w1)
      w3 == IF Falsy(w2.vid)
            THEN setItem(generateUUID(w2), "vid", UUID(w2.uuids + 1))
            ELSE w2
      w4 == getItem(w3)
      sessionId == w4.sid
      isExpired == GapExceeds(t, lastActivity, sessionTimeout)
      w5 == IF Falsy(sessionId) \/ isExpired
            THEN determineReferrer(
                   setItem(generateUUID(w4), "sid", UUID(w4.uuids + 1)), TRUE)
            ELSE determineReferrer(w4, FALSE)
  IN setItem(w5, "la", toString(t))

\* getIds(): the write of senzor_last_activity, then the three reads
getIds(w, t) == getItem(setItem(w, "la", toString(t)))

\* the identifiers with senzor_vid looked up in sessionStorage, where it is not
IdsFromSessionStorage(w) ==
  [visitorId |-> OrElse(Null, <<"unknown">>),
   sessionId |-> OrElse(w.sid, <<"unknown">>),
   referrer  |-> OrElse(w.ref, <<"Direct">>)]

Ids(w) ==
  [visitorId |-> OrElse(w.vid, <<"unknown">>),
   sessionId |-> OrElse(w.sid, <<"unknown">>),
   referrer  |-> OrElse(w.ref, <<"Direct">>)]

\* fetch(endpoint, {method: 'POST', keepalive}) with its catch handler
\* attached: the request leaves, the promise settles in a later task
fallbackSend(w, data) ==
  IF w.threw THEN w ELSE [w EXCEPT !.fetches = Append(@, data)]

\* navigator.sendBeacon(endpoint, blob): TRUE if the browser queued the blob
sendBeacon(w) == network.beacon = "queues"

\* send calling fallbackSend whatever sendBeacon returned
sendAlwaysFallsBack(w, data) ==
  LET w1 == [w EXCEPT !.out = Append(@, [endpoint |-> w.endpoint, data |-> data])]
  IN IF w.threw THEN w
     ELSE IF network.beacon # "absent"
          THEN LET w2 == [w1 EXCEPT !.beacons = Append(@, data)]
                   success == sendBeacon(w1)
               IN fallbackSend(w2, data)
     ELSE fallbackSend(w1, data)

\* out lists what send was called with
send(w, data) ==
  LET w1 == [w EXCEPT !.out = Append(@, [endpoint |-> w.endpoint, data |-> data])]
  IN IF w.threw THEN w
     ELSE IF network.beacon # "absent"
          THEN LET w2 == [w1 EXCEPT !.beacons = Append(@, data)]
                   success == sendBeacon(w1)
               IN IF ~success THEN fallbackSend(w2, data) ELSE w2
     ELSE fallbackSend(w1, data)

trackPageView(w, t) ==
  LET w1 == manageSession(w, t)
      w2 == IF w1.threw THEN w1 ELSE [w1 EXCEPT !.startTime = t]
      w3 == getIds(w2, t)
      w4 == getIds(w3, t)
      payload ==
        [type      |-> "pageview",
         webId     |-> w4.config.webId,
         visitorId |-> Ids(w3).visitorId,
         sessionId |-> Ids(w3).sessionId,
         url       |-> href(w4.loc),
         path      |-> w4.loc,
         title     |-> title(w4.loc),
         width     |-> innerWidth,
         timezone  |-> timeZone,
         referrer  |-> Ids(w4).referrer]
  IN send(w4, payload)

\* trackPing calling getIds before it looks at the duration
trackPingTouchesFirst(w, t) ==
  LET duration == FloorSeconds(t - w.startTime)
      w1 == getIds(w, t)
      w2 == getIds(w1, t)
      payload ==
        [type      |-> "ping",
         webId     |-> w2.config.webId,
         visitorId |-> Ids(w1).visitorId,
         sessionId |-> Ids(w1).sessionId,
         url       |-> href(w2.loc),
         path      |-> w2.loc,
         title     |-> title(w2.loc),
         width     |-> innerWidth,
         timezone  |-> timeZone,
         referrer  |-> Ids(w2).referrer,
         duration  |-> duration]
  IN IF w.threw THEN w ELSE IF duration < 1 THEN w1 ELSE send(w2, payload)

trackPing(w, t) ==
  LET duration == FloorSeconds(t - w.startTime)
      w1 == getIds(w, t)
      w2 == getIds(w1, t)
      payload ==
        [type      |-> "ping",
         webId     |-> w2.config.webId,
         visitorId |-> Ids(w1).visitorId,
         sessionId |-> Ids(w1).sessionId,
         url       |-> href(w2.loc),
         path      |-> w2.loc,
         title     |-> title(w2.loc),
         width     |-> innerWidth,
         timezone  |-> timeZone,
         referrer  |-> Ids(w2).referrer,
         duration  |-> duration]
  IN IF w.threw \/ duration < 1 THEN w ELSE send(w2, payload)

\* setupListeners(): one more pushState wrapper and one more listener of
\* each of popstate, visibilitychange and beforeunload
setupListeners(w) ==
  IF w.threw THEN w ELSE [w EXCEPT !.listeners = @ + 1]

\* init without the initialized guard
initUnguarded(w, config, t) ==
  LET merged == Merge(w.config, config)
      w1 == [w EXCEPT !.initialized = TRUE,
                      !.config = merged,
                      !.endpoint = OrElse(merged.endpoint, DefaultEndpoint)]
  IN IF Falsy(w1.config.webId) THEN w1
     ELSE setupListeners(trackPageView(manageSession(w1, t), t))

\* init without the check of webId
initNoValidation(w, config, t) ==
  IF w.initialized THEN w
  ELSE LET merged == Merge(w.config, config)
           w1 == [w EXCEPT !.initialized = TRUE,
                           !.config = merged,
                           !.endpoint = OrElse(merged.endpoint, DefaultEndpoint)]
       IN setupListeners(trackPageView(manageSession(w1, t), t))

\* init setting the initialized flag only once the webId has been checked
initValidatesFirst(w, config, t) ==
  IF w.initialized THEN w
  ELSE LET merged == Merge(w.config, config)
           w1 == [w EXCEPT !.config = merged,
                           !.endpoint = OrElse(merged.endpoint, DefaultEndpoint)]
       IN IF Falsy(w1.config.webId) THEN w1
          ELSE setupListeners(
                 trackPageView(manageSession([w1 EXCEPT !.initialized = TRUE], t), t))

init(w, config, t) ==
  IF w.initialized THEN w
  ELSE LET merged == Merge(w.config, config)
           w1 == [w EXCEPT !.initialized = TRUE,
                           !.config = merged,
                           !.endpoint = OrElse(merged.endpoint, DefaultEndpoint)]
       IN IF Falsy(w1.config.webId) THEN w1
          ELSE setupListeners(trackPageView(manageSession(w1, t), t))

----------------------------------------------------------------------------
(* The listeners setupListeners registers.  k is the number of times       *)
(* setupListeners has run: each run wraps history.pushState once more and  *)
(* adds one more listener per event; the browser runs the listeners of an  *)
(* event one after the other, an exception in one not stopping the next.   *)

\* the wrapper calling the original pushState before trackPing
RECURSIVE pushStateNavigatesFirst(_, _, _, _)
pushStateNavigatesFirst(w, url, t, k) ==
  IF k = 0
  THEN IF w.threw THEN w ELSE [w EXCEPT !.loc = url]
  ELSE trackPageView(trackPing(pushStateNavigatesFirst(w, url, t, k - 1), t), t)

\* history.pushState as patched k times, called by the host with url
RECURSIVE pushState(_, _, _, _)
pushState(w, url, t, k) ==
  IF k = 0
  THEN IF w.threw THEN w ELSE [w EXCEPT !.loc = url]
  ELSE trackPageView(pushState(trackPing(w, t), url, t, k - 1), t)

RECURSIVE onPopState(_, _, _)
onPopState(w, t, k) ==
  IF k = 0 THEN w
  ELSE LET r == trackPageView(trackPing([w EXCEPT !.threw = FALSE], t), t)
       IN onPopState([r EXCEPT !.threw = w.threw \/ r.threw], t, k - 1)

\* the visibilitychange listener leaving startTime alone when the tab is shown
RECURSIVE onVisibilityChangeKeepsTimer(_, _, _, _)
onVisibilityChangeKeepsTimer(w, state, t, k) ==
  IF k = 0 THEN w
  ELSE LET w0 == [w EXCEPT !.threw = FALSE]
           r == IF state = "hidden" THEN trackPing(w0, t) ELSE manageSession(w0, t)
       IN onVisibilityChangeKeepsTimer(
            [r EXCEPT !.threw = w.threw \/ r.threw], state, t, k - 1)

\* the visibilitychange listener restarting the timer without manageSession
RECURSIVE onVisibilityChangeNoSession(_, _, _, _)
onVisibilityChangeNoSession(w, state, t, k) ==
  IF k = 0 THEN w
  ELSE LET w0 == [w EXCEPT !.threw = FALSE]
           r == IF state = "hidden" THEN trackPing(w0, t)
                ELSE [w0 EXCEPT !.startTime = t]
       IN onVisibilityChangeNoSession(
            [r EXCEPT !.threw = w.threw \/ r.threw], state, t, k - 1)

RECURSIVE onVisibilityChange(_, _, _, _)
onVisibilityChange(w, state, t, k) ==
  IF k = 0 THEN w
  ELSE LET w0 == [w EXCEPT !.threw = FALSE]
           r == IF state = "hidden" THEN trackPing(w0, t)
                ELSE manageSession([w0 EXCEPT !.startTime = t], t)
       IN onVisibilityChange([r EXCEPT !.threw = w.threw \/ r.threw], state, t, k - 1)

RECURSIVE onBeforeUnload(_, _, _)
onBeforeUnload(w, t, k) ==
  IF k = 0 THEN w
  ELSE LET r == trackPing([w EXCEPT !.threw = FALSE], t)
       IN onBeforeUnload([r EXCEPT !.threw = w.threw \/ r.threw], t, k - 1)

----------------------------------------------------------------------------
(* The state machine.  The host calls init as the page loads, so the       *)
(* browser's signals are taken once init has been called (before that no   *)
(* listener exists and a signal reaches no code of the agent).  The mode   *)
(* of the storage is that of the page load and does not change during it.  *)
(* The handler's result is bound once (\E w \in {...}) and then committed. *)

\* the world a handler starts from
World ==
  [initialized |-> agent.initialized, config |-> agent.config,
   endpoint |-> agent.endpoint, startTime |-> agent.startTime,
   listeners |-> agent.listeners,
   vid |-> ls.vid, la |-> ls.la, sid |-> ss.sid, ref |-> ss.ref,
   uuids |-> uuids, loc |-> location, out |-> <<>>, writes |-> <<>>,
   beacons |-> <<>>, fetches |-> <<>>, threw |-> FALSE]

\* the payloads of type ty among the requests rs, in order
RECURSIVE OfType(_, _)
OfType(rs, ty) ==
  IF rs = <<>> THEN <<>>
  ELSE (IF Head(rs).data.type = ty THEN <<Head(rs).data>> ELSE <<>>)
       \o OfType(Tail(rs), ty)

Snapshot ==
  [now |-> now, agent |-> agent, ls |-> ls, ss |-> ss, location |-> location,
   visibility |-> visibility, lastPageview |-> lastPageview, lastShown |-> lastShown,
   pending |-> pending, visibleMs |-> visibleMs, pingedSec |-> pingedSec,
   uuids |-> uuids, pageviewSids |-> pageviewSids]

\* the sum of the durations of the pings among the requests rs
RECURSIVE Pinged(_)
Pinged(rs) ==
  IF rs = <<>> THEN 0
  ELSE (IF Head(rs).data.type = "ping" THEN Head(rs).data.duration ELSE 0)
       + Pinged(Tail(rs))

\* the time the tab was visible between the last handler and time t
VisibleUntil(t) == IF visibility = "visible" THEN t - now ELSE 0

\* the world a handler ends in becomes the next state
Commit(w, e, t) ==
  /\ now' = t
  /\ agent' = [initialized |-> w.initialized, config |-> w.config,
               endpoint |-> w.endpoint, startTime |-> w.startTime,
               listeners |-> w.listeners]
  /\ ls' = [vid |-> w.vid, la |-> w.la]
  /\ ss' = [sid |-> w.sid, ref |-> w.ref]
  /\ uuids' = w.uuids
  /\ location' = w.loc
  /\ out' = w.out
  /\ writes' = w.writes
  /\ beacons' = w.beacons
  /\ fetches' = w.fetches
  /\ pending' = pending \o w.fetches
  /\ threw' = w.threw
  /\ ev' = e
  /\ pre' = Snapshot
  /\ lastSent' = IF out = <<>> THEN lastSent ELSE out[Len(out)].data.sessionId
  /\ lastPing' = LET pings == OfType(out, "ping")
                 IN IF pings = <<>> THEN lastPing ELSE pings[Len(pings)].duration
  /\ lastPageview' = IF OfType(w.out, "pageview") = <<>> THEN lastPageview ELSE t
  /\ lastShown' = IF e.name = "visibilitychange" /\ e.arg = <<"visible">>
                  THEN t ELSE lastShown
  /\ visibleMs' = IF OfType(w.out, "pageview") = <<>>
                   THEN visibleMs + VisibleUntil(t) ELSE 0
  /\ pingedSec' = IF OfType(w.out, "pageview") = <<>>
                   THEN pingedSec + Pinged(w.out) ELSE 0
  /\ pageviewSids' = pageviewSids \cup
                      {OfType(w.out, "pageview")[i].sessionId :
                         i \in 1..Len(OfType(w.out, "pageview"))}
  /\ steps' = steps + 1
  /\ UNCHANGED <<docReferrer, storageMode, network, tabs>>

\* Storage as earlier visits of this agent may have left it: localStorage
\* outlives the tab, sessionStorage outlives the page load within the tab.
\* The identifiers 1 and 2 are those of the earlier visit; uuids starts at 2.
PriorVid == UUID(1)
PriorSid == UUID(2)
PriorActivity == toString(T0 - 60000)

\* the storage and the referrer a page load may start with
Loads ==
  \* a fresh device, reached directly, by an internal link or from a search
  { [vid |-> Null, la |-> Null, sid |-> Null, ref |-> Null, referrer |-> r] :
      r \in Referrers }
  \cup
  { \* an internal link followed in the same tab, the session attributed to Direct
    [vid |-> PriorVid, la |-> PriorActivity, sid |-> PriorSid, ref |-> <<"Direct">>,
     referrer |-> InternalReferrer],
    \* an internal link followed in the same tab, the session attributed to a search
    [vid |-> PriorVid, la |-> PriorActivity, sid |-> PriorSid,
     ref |-> normalizeUrl(ExternalReferrer), referrer |-> InternalReferrer],
    \* the same tab coming back from another site, the session attributed to Direct
    [vid |-> PriorVid, la |-> PriorActivity, sid |-> PriorSid, ref |-> <<"Direct">>,
     referrer |-> HttpReferrer],
    \* a returning visitor in a new tab, with a referrer that is no URL
    [vid |-> PriorVid, la |-> PriorActivity, sid |-> Null, ref |-> Null,
     referrer |-> UnparseableReferrer] }

\* the instance as the constructor leaves it
Constructed ==
  [initialized |-> FALSE,
   config |-> [webId |-> EmptyString, endpoint |-> DefaultEndpoint],
   endpoint |-> EmptyString, startTime |-> T0, listeners |-> 0]

\* sendBeacon queues every blob, so fetch is not called
Reliable == [beacon |-> "queues", fetch |-> "resolves"]

\* sendBeacon queues the blob, refuses it (returns false) or does not exist;
\* the fetch of the fallback resolves or rejects
Networks ==
  {Reliable}
  \cup [beacon : {"refuses", "absent"}, fetch : {"resolves", "rejects"}]

InitWith(loads, modes, networks) ==
  /\ now = T0
  /\ agent = Constructed
  /\ \E st \in loads :
       /\ ls = [vid |-> st.vid, la |-> st.la]
       /\ ss = [sid |-> st.sid, ref |-> st.ref]
       /\ docReferrer = st.referrer
  /\ uuids = 2
  /\ location = "/a"
  /\ visibility = "visible"
  /\ alive = TRUE
  /\ storageMode \in modes
  /\ out = <<>>
  /\ writes = <<>>
  /\ network \in networks
  /\ beacons = <<>>
  /\ fetches = <<>>
  /\ pending = <<>>
  /\ threw = FALSE
  /\ ev = [name |-> "load", arg |-> Null]
  /\ lastSent = Null
  /\ lastPing = 0
  /\ lastPageview = 0
  /\ lastShown = 0
  /\ visibleMs = 0
  /\ pingedSec = 0
  /\ pageviewSids = {}
  /\ pre = Snapshot
  /\ steps = 0

Init == InitWith(Loads, {"ok"}, {Reliable}) /\ tabs = <<>>

InitFaulty == InitWith(Loads, {"ok", "quota", "denied"}, {Reliable}) /\ tabs = <<>>

\* a fresh device reached directly, on any network
InitTransport ==
  /\ InitWith({st \in Loads : st.vid = Null /\ st.referrer = NoReferrer},
              {"ok"}, Networks)
  /\ tabs = <<>>

\* the host calls Senzor.init(config)
CallInit ==
  /\ alive /\ steps < MaxEvents
  /\ \E config \in Configs :
       \E w \in {init(World, config, now + InitDelay)} :
         Commit(w, [name |-> "init", arg |-> config], now + InitDelay)
  /\ UNCHANGED <<visibility, alive>>

\* The delays before a browser signal.  With no listener registered no code
\* runs on a signal and nothing reads the clock: one delay stands for all.
Delays == IF agent.listeners = 0 THEN {InitDelay} ELSE Elapsed

\* the host calls history.pushState(_, _, url)
PushState ==
  /\ alive /\ agent.initialized /\ steps < MaxEvents
  /\ \E url \in Pages \ {location}, d \in Delays :
       \E w \in {pushState(World, url, now + d, agent.listeners)} :
         Commit(w, [name |-> "pushState", arg |-> <<url>>], now + d)
  /\ UNCHANGED <<visibility, alive>>

\* back or forward: the browser moves to the entry's url, then fires popstate
PopState ==
  /\ alive /\ agent.initialized /\ steps < MaxEvents
  /\ \E url \in Pages \ {location}, d \in Delays :
       \E w \in {onPopState([World EXCEPT !.loc = url], now + d, agent.listeners)} :
         Commit(w, [name |-> "popstate", arg |-> <<url>>], now + d)
  /\ UNCHANGED <<visibility, alive>>

\* the tab is hidden or shown
VisibilityChange ==
  /\ alive /\ agent.initialized /\ steps < MaxEvents
  /\ visibility' = IF visibility = "visible" THEN "hidden" ELSE "visible"
  /\ \E d \in Delays :
       \E w \in {onVisibilityChange(World, visibility', now + d, agent.listeners)} :
         Commit(w, [name |-> "visibilitychange", arg |-> <<visibility'>>], now + d)
  /\ UNCHANGED alive

\* the page is torn down
BeforeUnload ==
  /\ alive /\ agent.initialized /\ steps < MaxEvents
  /\ alive' = FALSE
  /\ \E d \in Delays :
       \E w \in {onBeforeUnload(World, now + d, agent.listeners)} :
         Commit(w, [name |-> "beforeunload", arg |-> Null], now + d)
  /\ UNCHANGED visibility

Next == CallInit \/ PushState \/ PopState \/ VisibilityChange \/ BeforeUnload

\* the promise of the oldest pending fetch settles; if it rejects, the catch
\* handler passes the error to console.error
FetchSettles ==
  /\ alive /\ steps < MaxEvents
  /\ pending # <<>>
  /\ pending' = Tail(pending)
  /\ ev' = [name |-> "fetchSettled", arg |-> <<network.fetch>>]
  /\ pre' = Snapshot
  /\ out' = <<>>
  /\ writes' = <<>>
  /\ beacons' = <<>>
  /\ fetches' = <<>>
  /\ threw' = FALSE
  /\ steps' = steps + 1
  /\ UNCHANGED <<now, agent, ls, ss, uuids, location, docReferrer, visibility,
                 alive, storageMode, network, lastSent, lastPing, lastPageview,
                 lastShown, visibleMs, pingedSec, pageviewSids, tabs>>

NextTransport == Next \/ FetchSettles

Spec == Init /\ [][Next]_vars

SpecFaulty == InitFaulty /\ [][Next]_vars

SpecTransport == InitTransport /\ [][NextTransport]_vars

----------------------------------------------------------------------------
(* Two tabs of one origin.  localStorage (ls) is shared, sessionStorage is  *)
(* each tab's own.  Each tab runs init; every access to localStorage is one *)
(* step, and the steps of the two tabs interleave freely.  pc is the next   *)
(* access of the tab, round the call of manageSession it is in (1: that of  *)
(* init, 2: that of trackPageView).                                         *)

TabIds == {1, 2}

\* a tab whose page has constructed the agent
LoadedTab ==
  [pc |-> "init", round |-> 0, lastActivity |-> 0, sid |-> Null, ref |-> Null,
   sent |-> <<>>]

\* a step of tab i that leaves localStorage alone
TabStep(i, tab) ==
  /\ tabs' = [tabs EXCEPT ![i] = tab]
  /\ ev' = [name |-> "tab", arg |-> <<i>>]
  /\ pre' = Snapshot
  /\ UNCHANGED <<now, agent, ss, location, docReferrer, visibility, alive,
                 storageMode, out, writes, network, beacons, fetches, pending,
                 threw, lastSent, lastPing, lastPageview, lastShown, visibleMs,
                 pingedSec, pageviewSids, steps>>

\* init({webId}) up to its call of manageSession
TabInit(i) ==
  /\ tabs[i].pc = "init"
  /\ TabStep(i, [tabs[i] EXCEPT !.pc = "readActivity", !.round = 1])
  /\ UNCHANGED <<ls, uuids>>

\* manageSession: parseInt(localStorage.getItem('senzor_last_activity') || '0')
TabReadsActivity(i) ==
  /\ tabs[i].pc = "readActivity"
  /\ TabStep(i, [tabs[i] EXCEPT !.pc = "readVisitor",
                                !.lastActivity = parseInt(OrElse(ls.la, <<"0">>))])
  /\ UNCHANGED <<ls, uuids>>

\* manageSession: if (!localStorage.getItem('senzor_vid'))
TabReadsVisitor(i) ==
  /\ tabs[i].pc = "readVisitor"
  /\ TabStep(i, [tabs[i] EXCEPT !.pc = IF Falsy(ls.vid) THEN "writeVisitor"
                                       ELSE "session"])
  /\ UNCHANGED <<ls, uuids>>

\* manageSession: localStorage.setItem('senzor_vid', generateUUID())
TabWritesVisitor(i) ==
  /\ tabs[i].pc = "writeVisitor"
  /\ uuids' = uuids + 1
  /\ ls' = [ls EXCEPT !.vid = UUID(uuids + 1)]
  /\ TabStep(i, [tabs[i] EXCEPT !.pc = "session"])

\* manageSession: the session in the tab's sessionStorage, then
\* localStorage.setItem('senzor_last_activity', now.toString())
TabManagesSession(i) ==
  /\ tabs[i].pc = "session"
  /\ LET isExpired == GapExceeds(now, tabs[i].lastActivity, sessionTimeout)
         isNew == Falsy(tabs[i].sid) \/ isExpired
         next == IF tabs[i].round = 1 THEN "readActivity" ELSE "getIds"
     IN /\ uuids' = IF isNew THEN uuids + 1 ELSE uuids
        /\ TabStep(i, [tabs[i] EXCEPT
                         !.sid = IF isNew THEN UUID(uuids + 1) ELSE @,
                         !.ref = IF isNew /\ Falsy(@) THEN <<"Direct">> ELSE @,
                         !.pc = next,
                         !.round = 2])
  /\ ls' = [ls EXCEPT !.la = toString(now)]

\* getIds: localStorage.setItem('senzor_last_activity', Date.now().toString())
TabTouches(i) ==
  /\ tabs[i].pc = "getIds"
  /\ ls' = [ls EXCEPT !.la = toString(now)]
  /\ TabStep(i, [tabs[i] EXCEPT !.pc = "send"])
  /\ UNCHANGED uuids

\* getIds: the read of senzor_vid; trackPageView sends the pageview
TabSends(i) ==
  /\ tabs[i].pc = "send"
  /\ TabStep(i, [tabs[i] EXCEPT
                   !.pc = "done",
                   !.sent = Append(@, [type |-> "pageview",
                                       visitorId |-> OrElse(ls.vid, <<"unknown">>),
                                       sessionId |-> OrElse(tabs[i].sid, <<"unknown">>),
                                       referrer |-> OrElse(tabs[i].ref, <<"Direct">>)])])
  /\ UNCHANGED <<ls, uuids>>

\* a fresh device or a returning visitor opens the site in two tabs at once
InitTabs ==
  /\ InitWith({st \in Loads : st.referrer = NoReferrer} \cup
              {[vid |-> PriorVid, la |-> PriorActivity, sid |-> Null, ref |-> Null,
                referrer |-> NoReferrer]},
              {"ok"}, {Reliable})
  /\ tabs = [i \in TabIds |-> LoadedTab]

NextTabs ==
  \E i \in TabIds :
    \/ TabInit(i)
    \/ TabReadsActivity(i)
    \/ TabReadsVisitor(i)
    \/ TabWritesVisitor(i)
    \/ TabManagesSession(i)
    \/ TabTouches(i)
    \/ TabSends(i)

SpecTabs == InitTabs /\ [][NextTabs]_vars

----------------------------------------------------------------------------
(* Properties.  They speak of the last handler: pre is the state it started *)
(* from, out the requests it handed to the network.                         *)

\* the payloads the last handler sent
Sent == {out[i].data : i \in 1..Len(out)}

Pings == OfType(out, "ping")

Pageviews == OfType(out, "pageview")

\* the last handler ran with the listeners of one successful init in place
Listening == pre.agent.listeners = 1

\* the last handler was one that calls trackPing
RunsPing ==
  /\ Listening
  /\ \/ ev.name \in {"pushState", "popstate", "beforeunload"}
     \/ ev.name = "visibilitychange" /\ ev.arg = <<"hidden">>

TabShown == ev.name = "visibilitychange" /\ ev.arg = <<"visible">>

\* the last handler started a new session
NewSession == ss.sid # pre.ss.sid

\* document.referrer is absent or of the page's own host
ReferrerInternalOrAbsent ==
  \/ docReferrer = EmptyString
  \/ Parses(docReferrer) /\ hostname(docReferrer) = currentHost

Max(a, b) == IF a >= b THEN a ELSE b

Direct == <<"Direct">>

\* C1: when more than 30 minutes pass with no event and the next event is a
\* history navigation (pushState or popstate), the pageview sent for it
\* carries a sessionId different from that of the last payload sent before
\* the gap.
C1_NavigationAfterIdleRotatesSession ==
  (/\ ev.name \in {"pushState", "popstate"}
   /\ Listening
   /\ now - pre.now > sessionTimeout
   /\ lastSent # Null)
  => /\ Pageviews # <<>>
     /\ \A i \in 1..Len(Pageviews) : Pageviews[i].sessionId # lastSent

\* C2: while a sessionId is stored and at most 30 minutes (30 minutes
\* exactly included) have passed since the stored lastActivity, a handler
\* keeps the stored sessionId and every payload it sends carries it.
C2_SessionKeptWithinTimeout ==
  (/\ pre.ss.sid # Null
   /\ pre.ls.la # Null
   /\ now - parseInt(pre.ls.la) <= sessionTimeout)
  => /\ ss.sid = pre.ss.sid
     /\ \A p \in Sent : p.sessionId = pre.ss.sid

\* the tab is shown again exactly 30 minutes after the last activity:
\* manageSession runs and keeps the session
C2_Witness ==
  /\ TabShown /\ Listening
  /\ pre.ss.sid # Null /\ pre.ls.la # Null
  /\ now - parseInt(pre.ls.la) = sessionTimeout
  /\ ls.la = toString(now)
  /\ ss.sid = pre.ss.sid

\* C3: once a visitorId is stored no handler writes another value to it, and
\* every payload carries the stored visitorId.
C3_VisitorIdNeverRewritten ==
  /\ pre.ls.vid # Null => ls.vid = pre.ls.vid
  /\ \A p \in Sent : p.visitorId = ls.vid /\ ls.vid # Null

\* a session rotation that left the stored visitorId alone
C3_Witness ==
  /\ pre.ls.vid # Null /\ pre.ss.sid # Null
  /\ NewSession
  /\ ls.vid = pre.ls.vid

\* C4: after a successful init a further call of init, with any
\* configuration, sends nothing, registers nothing and leaves the instance
\* (startTime, webId, endpoint) and both storage scopes as they were; every
\* later signal produces at most one ping and one pageview.
C4_SecondInitChangesNothing ==
  /\ (ev.name = "init" /\ pre.agent.listeners >= 1)
     => /\ out = <<>> /\ ~threw
        /\ agent = pre.agent
        /\ ls = pre.ls /\ ss = pre.ss
  /\ Len(Pings) <= 1 /\ Len(Pageviews) <= 1

\* a second init with another webId than the first
C4_Witness ==
  /\ ev.name = "init" /\ pre.agent.listeners = 1
  /\ "webId" \in DOMAIN ev.arg
  /\ ev.arg.webId # agent.config.webId
  /\ agent = pre.agent

\* C5: when storage fails, no handler lets the failure escape into the page.
C5_StorageFailureContained ==
  storageMode # "ok" => ~threw

\* C6: an intercepted pushState from page A to page B sends the ping (unless
\* suppressed) with the url and path of A, then applies the navigation, then
\* sends the pageview with the url and path of B, and startTime is the time
\* of the pageview.
C6_PushStatePingThenPageview ==
  (ev.name = "pushState" /\ Listening)
  => LET A == pre.location
         B == ev.arg[1]
         suppressed == (now - pre.agent.startTime) \div 1000 < 1
         pv == out[Len(out)].data
     IN /\ location = B
        /\ agent.startTime = now
        /\ Len(out) = IF suppressed THEN 1 ELSE 2
        /\ pv.type = "pageview" /\ pv.path = B /\ pv.url = href(B)
        /\ ~suppressed =>
             /\ out[1].data.type = "ping"
             /\ out[1].data.path = A /\ out[1].data.url = href(A)

\* a navigation from /a to /b that sent both
C6_Witness ==
  /\ ev.name = "pushState" /\ Listening
  /\ pre.location = "/a" /\ location = "/b"
  /\ Len(out) = 2
  /\ out[1].data.type = "ping" /\ out[1].data.path = "/a"
  /\ out[2].data.type = "pageview" /\ out[2].data.path = "/b"

\* C7: on popstate from page A to page B the agent sends a ping and then a
\* pageview; the ping has the url and path of A and the time spent on A, the
\* pageview the url and path of B.
C7_PopStatePingIsOutgoingPage ==
  (ev.name = "popstate" /\ Listening)
  => LET A == pre.location
         B == ev.arg[1]
     IN /\ Pageviews # <<>> /\ Pageviews[1].path = B /\ Pageviews[1].url = href(B)
        /\ \A i \in 1..Len(Pings) :
             /\ Pings[i].path = A /\ Pings[i].url = href(A)
             /\ Pings[i].duration = (now - pre.agent.startTime) \div 1000

\* C8: trackPing sends nothing when floor((now - startTime) / 1000) < 1 and
\* otherwise exactly one ping with that duration; a payload has a duration
\* field exactly when it is a ping.
C8_PingDuration ==
  /\ RunsPing =>
       LET d == (now - pre.agent.startTime) \div 1000
       IN IF d < 1 THEN Pings = <<>>
          ELSE Len(Pings) = 1 /\ Pings[1].duration = d /\ Pings[1].duration >= 1
  /\ ~RunsPing => Pings = <<>>
  /\ \A p \in Sent : ("duration" \in DOMAIN p) <=> (p.type = "ping")

\* 10.5 seconds after startTime: a ping of 10
C8_Witness ==
  /\ RunsPing
  /\ now - pre.agent.startTime = 10500
  /\ Len(Pings) = 1 /\ Pings[1].duration = 10

\* C9: every ping's duration is the whole seconds since the later of the
\* last pageview and the last time the tab became visible again.
C9_PingCountsFromPageviewOrShow ==
  \A i \in 1..Len(Pings) :
    Pings[i].duration = (now - Max(pre.lastPageview, pre.lastShown)) \div 1000

\* hidden 45 s after the pageview, shown, closed 10 s after being shown:
\* pings of 45 and 10
C9_Witness ==
  /\ ev.name = "beforeunload"
  /\ lastPing = 45
  /\ Len(Pings) = 1 /\ Pings[1].duration = 10
  /\ now - pre.lastShown = 10000
  /\ now - pre.lastPageview >= 55000

ReferrerExternal == ~ReferrerInternalOrAbsent

\* the last handler was the init call that set the agent up
FirstInit == ev.name = "init" /\ ~pre.agent.initialized /\ agent.listeners = 1

\* the last handler was one that calls manageSession
RunsManageSession ==
  \/ FirstInit
  \/ Listening /\ (ev.name \in {"pushState", "popstate"} \/ TabShown)

\* raw without a leading http:// or https://
WithoutScheme(raw) ==
  IF Len(raw) >= 1 /\ raw[1] \in {"http://", "https://"}
  THEN SubSeq(raw, 2, Len(raw))
  ELSE raw

\* how many times the last handler wrote the storage key k
WritesOf(k) == Cardinality({i \in 1..Len(writes) : writes[i] = k})

\* C11: when document.referrer is of another host or cannot be parsed, a
\* handler that runs manageSession, in a new or an ongoing session, leaves
\* the referrer without its leading http:// or https:// stored, every payload
\* it sends reports that value, and senzor_ref is written only if the value
\* differs from the stored one (once, however often manageSession runs).
C11_ExternalReferrerStoredWithoutScheme ==
  (ReferrerExternal /\ RunsManageSession)
  => /\ ss.ref = WithoutScheme(docReferrer)
     /\ \A p \in Sent : p.referrer = WithoutScheme(docReferrer)
     /\ WritesOf("ref") = IF pre.ss.ref = WithoutScheme(docReferrer) THEN 0 ELSE 1

\* an ongoing session attributed to Direct, entered again from another site
\* over http: the referrer is stored without the scheme, by one write
C11_Witness ==
  /\ FirstInit /\ ~NewSession
  /\ docReferrer = HttpReferrer
  /\ pre.ss.ref = Direct
  /\ ss.ref = <<"news.example", "/item">>
  /\ WritesOf("ref") = 1
  /\ Pageviews # <<>> /\ Pageviews[1].referrer = <<"news.example", "/item">>

\* C12: a handler that runs manageSession in an ongoing session (the stored
\* sessionId is kept), with document.referrer absent or of the page's own
\* host, leaves the stored referrer exactly as it was and does not write it.
C12_OngoingSessionKeepsReferrer ==
  (RunsManageSession /\ ReferrerInternalOrAbsent /\ ~NewSession)
  => /\ ss.ref = pre.ss.ref
     /\ WritesOf("ref") = 0

\* an ongoing session attributed to a search, continued by an internal link
C12_Witness ==
  /\ FirstInit /\ ~NewSession
  /\ docReferrer = InternalReferrer
  /\ pre.ss.ref = <<"search.example", "/q=x">>
  /\ ss.ref = pre.ss.ref

\* config has a webId that is not empty
HasWebId(config) == "webId" \in DOMAIN config /\ ~Falsy(config.webId)

\* C13: an init call whose config has no webId, or an empty one, returns
\* without throwing, sends nothing, registers no listener and no pushState
\* wrapper and writes to neither storage scope; and as long as no listener
\* is registered no browser signal sends or writes anything.
C13_InitWithoutWebIdIsInert ==
  /\ (ev.name = "init" /\ ~pre.agent.initialized /\ ~HasWebId(ev.arg))
     => /\ ~threw
        /\ out = <<>>
        /\ writes = <<>>
        /\ agent.listeners = 0
        /\ ls = pre.ls /\ ss = pre.ss
  /\ (agent.initialized /\ agent.listeners = 0)
     => /\ out = <<>>
        /\ writes = <<>>
        /\ ls = pre.ls /\ ss = pre.ss

\* after an init with an empty webId the host navigates: nothing is sent
C13_Witness ==
  /\ ev.name = "pushState"
  /\ location # pre.location
  /\ agent.initialized /\ agent.listeners = 0
  /\ agent.config.webId = EmptyString
  /\ out = <<>> /\ writes = <<>>

\* the payloads send was called with by the last handler, in order
Handed == [i \in 1..Len(out) |-> out[i].data]

\* C14: every payload handed to send is passed to navigator.sendBeacon once
\* if sendBeacon exists and not at all otherwise; it is passed to fetch once
\* if sendBeacon is absent or returned false and not at all otherwise; and
\* when the fetch settles, rejected or not, nothing is sent again or queued
\* and neither the agent nor the storage changes.
C14_OneAttemptPerTransport ==
  /\ beacons = IF network.beacon = "absent" THEN <<>> ELSE Handed
  /\ fetches = IF network.beacon \in {"absent", "refuses"} THEN Handed ELSE <<>>
  /\ ev.name = "fetchSettled"
     => /\ out = <<>> /\ beacons = <<>> /\ fetches = <<>>
        /\ pending = Tail(pre.pending)
        /\ agent = pre.agent /\ ls = pre.ls /\ ss = pre.ss
        /\ writes = <<>> /\ ~threw

\* sendBeacon refused the initial pageview, and the fetch that followed it
\* has been rejected
C14_Witness ==
  /\ ev.name = "fetchSettled" /\ ev.arg = <<"rejects">>
  /\ network.beacon = "refuses"
  /\ pre.pending # <<>> /\ pre.pending[1].type = "pageview"
  /\ pending = <<>>

\* both storage scopes were empty when the last handler started
FreshDevice ==
  /\ pre.ls.vid = Null /\ pre.ls.la = Null
  /\ pre.ss.sid = Null /\ pre.ss.ref = Null

\* the last handler was the first call of init, with a webId
InitWithWebId == ev.name = "init" /\ ~pre.agent.initialized /\ HasWebId(ev.arg)

\* C15: on a fresh device with no external referrer, the first init call
\* with a webId sends exactly one payload; it is a pageview, its visitorId
\* and sessionId are the two identifiers the call generated and stored, not
\* "unknown", its referrer is "Direct", and no ping is sent.
C15_FirstInitSendsOnePageview ==
  (InitWithWebId /\ FreshDevice /\ ReferrerInternalOrAbsent)
  => /\ Len(out) = 1
     /\ Pings = <<>>
     /\ out[1].data.type = "pageview"
     /\ out[1].data.visitorId = ls.vid
     /\ out[1].data.sessionId = ss.sid
     /\ uuids = pre.uuids + 2
     /\ {ls.vid, ss.sid} = {UUID(pre.uuids + 1), UUID(pre.uuids + 2)}
     /\ out[1].data.visitorId # <<"unknown">>
     /\ out[1].data.sessionId # <<"unknown">>
     /\ out[1].data.referrer = Direct

\* the first init on a fresh device reached by an internal link
C15_Witness ==
  /\ InitWithWebId /\ FreshDevice
  /\ docReferrer = InternalReferrer
  /\ Len(out) = 1 /\ out[1].data.type = "pageview"
  /\ out[1].data.visitorId = UUID(3) /\ out[1].data.sessionId = UUID(4)

\* the endpoint the config asks for
EndpointOf(config) ==
  IF "endpoint" \in DOMAIN config /\ config.endpoint # EmptyString
  THEN config.endpoint
  ELSE <<"https://", "api.senzor.dev", "/api/ingest/web">>

\* C16: the first init call fixes the endpoint (its config's endpoint, or
\* the default one if it has none or an empty one) and, if it has one, the
\* webId; every payload carries that webId and goes to that endpoint, and no
\* later event or init call changes either.
C16_WebIdAndEndpointFixedByFirstInit ==
  /\ (ev.name = "init" /\ ~pre.agent.initialized)
     => /\ agent.endpoint = EndpointOf(ev.arg)
        /\ HasWebId(ev.arg) => agent.config.webId = ev.arg.webId
  /\ pre.agent.initialized
     => /\ agent.config.webId = pre.agent.config.webId
        /\ agent.endpoint = pre.agent.endpoint
  /\ \A i \in 1..Len(out) :
       /\ out[i].data.webId = agent.config.webId
       /\ out[i].endpoint = agent.endpoint

\* after init({webId: 'w2', endpoint: 'https://collect.example/in'}) and a
\* later init call with another config, the ping and the pageview of a
\* navigation go to collect.example as w2
C16_Witness ==
  /\ ev.name = "pushState"
  /\ steps >= 3
  /\ Len(out) = 2
  /\ \A i \in 1..2 : /\ out[i].data.webId = <<"w2">>
                      /\ out[i].endpoint = <<"https://", "collect.example", "/in">>

\* C17: when the tab becomes visible, startTime is set to that time; if more
\* than 30 minutes have passed since the stored lastActivity the session is
\* rotated, to a sessionId other than that of the last payload sent, and
\* otherwise the sessionId is kept; and the first payload a later handler
\* sends carries the sessionId stored when that handler starts.
C17_VisibilityRegainRotatesExpiredSession ==
  /\ (TabShown /\ Listening /\ pre.ls.la # Null /\ pre.ss.sid # Null)
     => /\ agent.startTime = now
        /\ IF now - parseInt(pre.ls.la) > sessionTimeout
           THEN ss.sid # pre.ss.sid /\ ss.sid # lastSent /\ ss.sid # Null
           ELSE ss.sid = pre.ss.sid
  /\ (Listening /\ out # <<>>) => out[1].data.sessionId = pre.ss.sid

\* shown one millisecond past 30 minutes after the ping of the hide, then
\* closed: the ping of the close carries the rotated sessionId
C17_Witness ==
  /\ ev.name = "beforeunload"
  /\ pre.visibility = "visible"
  /\ pre.lastShown = pre.now /\ pre.agent.startTime = pre.now
  /\ Len(Pings) = 1
  /\ lastSent # Null
  /\ Pings[1].sessionId # lastSent

\* C20: manageSession called a second time at once leaves visitorId,
\* sessionId and referrer as the first call left them, generates no
\* identifier and writes only senzor_last_activity (from every state in
\* which a handler can still run, at that time and past the session
\* timeout); the init call that sets the agent up writes at most one
\* sessionId, and its pageview carries it.
C20_ManageSessionTwiceAsOnce ==
  /\ (alive /\ steps < MaxEvents) => \A d \in {0, sessionTimeout + 1} :
       \A once \in {manageSession(World, now + d)} :
         \A twice \in {manageSession(once, now + d)} :
           /\ twice.vid = once.vid
           /\ twice.sid = once.sid
           /\ twice.ref = once.ref
           /\ twice.uuids = once.uuids
           /\ twice.writes = Append(once.writes, "la")
  /\ FirstInit
     => /\ WritesOf("sid") <= 1
        /\ WritesOf("vid") <= 1
        /\ uuids = pre.uuids + WritesOf("sid") + WritesOf("vid")
        /\ Len(Pageviews) = 1
        /\ Pageviews[1].sessionId = ss.sid

\* an init that starts a session: one sessionId written, lastActivity written
\* by both calls of manageSession
C20_Witness ==
  /\ FirstInit /\ NewSession
  /\ WritesOf("sid") = 1
  /\ WritesOf("la") >= 2
  /\ Pageviews[1].sessionId = ss.sid

\* the time the tab was visible between the last two handlers
VisibleSpan == IF pre.visibility = "visible" THEN now - pre.now ELSE 0

\* C18: the durations of the pings sent for a page since its pageview,
\* those of the last handler included, add up to no more than the time the
\* tab was visible on that page, with one second allowed for rounding; so
\* no ping reports time the tab was hidden.
C18_PingsCountVisibleTimeOnly ==
  (Listening /\ Pings # <<>>)
  => (pre.pingedSec + Pinged(out)) * 1000 <= pre.visibleMs + VisibleSpan + 1000

\* the payloads the two tabs have sent
TabPayloads == UNION {{tabs[i].sent[k] : k \in 1..Len(tabs[i].sent)} : i \in TabIds}

\* C19: with two tabs sharing localStorage and their accesses interleaved, a
\* stored visitorId is never replaced by another value, and all payloads of
\* both tabs carry the same visitorId.
C19_TabsShareOneVisitorId ==
  /\ ~Falsy(pre.ls.vid) => ls.vid = pre.ls.vid
  /\ \A p, q \in TabPayloads : p.visitorId = q.visitorId

\* the last handler was one that calls trackPing and nothing else
RunsPingOnly ==
  /\ Listening
  /\ \/ ev.name = "beforeunload"
     \/ ev.name = "visibilitychange" /\ ev.arg = <<"hidden">>

\* C21: a handler that only calls trackPing, with less than a second passed
\* since startTime, sends nothing, writes no storage key (lastActivity
\* stays as it was) and leaves startTime alone; with a second or more it
\* sends one ping, leaves startTime, sessionId, visitorId and the stored
\* referrer alone and writes no key but senzor_last_activity.
C21_PingFrame ==
  RunsPingOnly
  => /\ agent.startTime = pre.agent.startTime
     /\ ss = pre.ss
     /\ ls.vid = pre.ls.vid
     /\ IF now - pre.agent.startTime < 1000
        THEN /\ out = <<>>
             /\ writes = <<>>
             /\ ls.la = pre.ls.la
        ELSE /\ Len(out) = 1 /\ Len(Pings) = 1
             /\ writes # <<>>
             /\ \A i \in 1..Len(writes) : writes[i] = "la"
             /\ ls.la = toString(now)

\* the tab is hidden half a second after the pageview: no ping, and
\* lastActivity still that of the pageview
C21_Witness ==
  /\ RunsPingOnly /\ ev.name = "visibilitychange"
  /\ now - pre.agent.startTime = 500
  /\ out = <<>> /\ writes = <<>>
  /\ ls.la = pre.ls.la /\ ls.la # toString(now)

\* C22: an init call without a webId sets the initialized flag all the
\* same; and every init call made after one, with a webId or not, changes
\* nothing: no payload, no listener, no write, the agent as it was.
C22_FailedInitIsFinal ==
  /\ (ev.name = "init" /\ ~pre.agent.initialized /\ ~HasWebId(ev.arg))
     => agent.initialized
  /\ (ev.name = "init" /\ pre.agent.initialized /\ pre.agent.listeners = 0)
     => /\ agent = pre.agent
        /\ out = <<>>
        /\ writes = <<>>
        /\ ls = pre.ls /\ ss = pre.ss
        /\ ~threw

\* init({webId: 'w1'}) after an init call without a webId: nothing happens
C22_Witness ==
  /\ ev.name = "init" /\ HasWebId(ev.arg)
  /\ pre.agent.initialized /\ pre.agent.listeners = 0
  /\ agent.listeners = 0
  /\ agent.config.webId = EmptyString
  /\ out = <<>>

\* C23: every ping carries a sessionId that a pageview sent earlier in this
\* page load carried.
C23_PingInSessionOfAPageview ==
  \A i \in 1..Len(Pings) : Pings[i].sessionId \in pre.pageviewSids

====
